---- MODULE Spec2Model ----
(***************************************************************************)
(* hsdb_spd: the spectrum processing orchestrator (app/tasks/processing.py)*)
(* with the database client it calls (app/tasks/communication.py), as a    *)
(* state machine.  One run of process_routine(id) per record id; the       *)
(* token state of the settings singleton is shared by all runs.            *)
(*                                                                         *)
(* Modelling decisions:                                                    *)
(*  - a task enqueued with .delay is always accepted by the broker;        *)
(*  - the wall clock is an input: whether a cached token is older than     *)
(*    7000 s is chosen at every login();                                   *)
(*  - file contents are abstracted to the classes the code distinguishes   *)
(*    (see TraceKinds, MetadataValues, FindPeaksOutcomes).                 *)
(***************************************************************************)
EXTENDS Integers, Sequences, FiniteSets, TLC

\* ------------------------------------------------------------- bounds
\* longest filename stem, counted in dot-separated parts ("s.s" has 2)
MaxStemParts == 2
\* largest peak position the detector reports; peak lists hold distinct
\* positions in any order
MaxPeakPos == 1

\* ---------------------------------------------------------- record ids
\* the record ids that can be processed; run r processes record r
Ids == {1, 2}

None == "None"

\* ------------------------------------------------------------ filenames
\* A filename is the sequence of its dot-separated parts: "s.s.txt" is
\* <<"s", "s", "txt">>.
RECURSIVE StemsOfLen(_)
StemsOfLen(n) == IF n = 0 THEN {<<>>} ELSE {Append(s, "s") : s \in StemsOfLen(n - 1)}

Filenames == {Append(s, "txt") : s \in UNION {StemsOfLen(n) : n \in 1..MaxStemParts}}

Min(a, b) == IF a < b THEN a ELSE b

\* str.rsplit(".", maxsplit)[0]: the parts left of the last maxsplit dots
RSplitHead(parts, maxsplit) == SubSeq(parts, 1, Len(parts) - Min(maxsplit, Len(parts) - 1))

\* the record's filename without its extension
OriginalStem(parts) == IF Len(parts) > 1 THEN SubSeq(parts, 1, Len(parts) - 1) ELSE parts

\* a buffer name: <stem><suffix>.<ext>
BufferName(stem, suffix) == [stem |-> stem, suffix |-> suffix, ext |-> "csv"]

NoName == [stem |-> <<>>, suffix |-> "", ext |-> ""]

\* the name handle_thz gives the five-column table
ThzName(filename) == BufferName(RSplitHead(filename, 1), "_processed")

\* the name convert_to_csv gives the canonical table
CsvName(filename) == BufferName(OriginalStem(filename), "")

\* -------------------------------------------------------------- messages
MsgRetrieve == "Error retrieving spectrum with {id}"
MsgGetFile == "Error getting spectrum file from server"
MsgConvert == "Error coverting spectrum with id {id}"
MsgDoneThz == "Done processing for thz spectrum with id {id}"
MsgUpload == "Error uploading processing data to spectrum with id {id}"
MsgDone == "Done processing for spectrum with id {id}"
MsgProcessing == "Error processing spectrum with id {id}"
MsgRetrieveRef == "Error retrieving reference spectrum with id {ref_id}"
MsgThickness == "Error while processing. Sample thickness is not provided"
MsgAuth == "Authentification failed (response status: {status_code})"

DoneMessages == {MsgDone, MsgDoneThz}

\* ------------------------------------------------------------ exceptions
\* what the steps raise: get_token raises Exception on a non-200 answer and
\* json.loads a JSONDecodeError on a bad token body; json.loads, the key
\* lookups and dacite's from_dict raise on a bad record; merge_metadata
\* raises TypeError unpacking a JSON text that is not an object.
NoExc == "NoExc"
ExceptionTypes == {"Exception", "JSONDecodeError", "KeyError", "DaciteError", "TypeError"}

\* a handler that names one exception class
CatchesJsonErrorOnly(e) == e = "JSONDecodeError"

\* `except Exception as e` catches every Exception subclass
Catches(e) == e \in ExceptionTypes

\* ------------------------------------------------------ variable names
\* The variables a run reads and writes, for the access log.  The settings
\* singleton is one object of the process; a Spectrum is an object of the
\* run that built it.
Shared(name) == <<name, 0>>

\* an object kept in one module-level variable of the process
LocalAsGlobal(name, r) == <<name, 0>>

\* an object of run r
Local(name, r) == <<name, r>>

TokenFields == {Shared("settings.access_token"), Shared("settings.refresh_token"),
                Shared("settings.token_created_at")}

ConfigFields == {Shared("settings.db_url"), Shared("settings.db_email"),
                 Shared("settings.db_password"), Shared("settings.db_client_id")}

\* ------------------------------------------------------- record contents
Categories == {"thz", "ir"}

\* the metadata field of a record (str | dict | None): absent, a mapping, a
\* JSON text of an object, a JSON text of something else, a text that is
\* no JSON
MetadataValues == {None, "dict", "str_object", "str_scalar", "str_invalid"}

\* what a record's file holds, as far as the code tells it apart: a file no
\* dialect converts; a table of numbers; a table with a cell that is no
\* number; a table of numbers whose signal column is all zero
TraceKinds == {"numeric", "nonnumeric", "allzero"}

FileContents == {"unconvertible"} \cup TraceKinds

\* the reference record of the same parent: absent, or its file contents
ReferenceValues == {"absent"} \cup FileContents

Records == [filename : Filenames, category : Categories, metadata : MetadataValues,
            sample_thickness : {None, "float"}, content : FileContents,
            reference : ReferenceValues]

DefaultRecord == [filename |-> <<"s", "txt">>, category |-> "ir", metadata |-> "dict",
                  sample_thickness |-> None, content |-> "numeric",
                  reference |-> "absent"]

\* the records of the runs that share a process
ConcurrentRecords == {rec \in Records :
                        /\ rec.filename = <<"s", "txt">>
                        /\ rec.metadata = "dict"
                        /\ rec.sample_thickness = "float"
                        /\ rec.content = "numeric"
                        /\ rec.reference \in {"absent", "numeric"}}

\* ------------------------------------------------------ the Spectrum object
NoBuffer == [present |-> FALSE, name |-> NoName, pos |-> "start", trace |-> "numeric"]

Buffer(name, trace) == [present |-> TRUE, name |-> name, pos |-> "start", trace |-> trace]

NoPeaks == [present |-> FALSE, x |-> <<>>]

NoSpectrum == [loaded |-> FALSE, filename |-> <<>>, category |-> "", metadata |-> None,
               merged |-> FALSE, sample_thickness |-> None, raw_file |-> None,
               csv_file |-> NoBuffer, peaks |-> NoPeaks, peak_metadata |-> NoPeaks]

NoReference == [ref_id |-> None, loaded |-> FALSE, raw_file |-> None, csv_file |-> NoBuffer]

NoResult == [k \in {} |-> ""]

NoTokens == [access_token |-> None, refresh_token |-> None, token_created_at |-> None]

\* what the API has answered for a record: nothing yet
NoRequest == [status_code |-> 0, enqueued |-> 0]

\* the stored status of a record no update_status task has reached
NoUpdates == [status |-> None, done |-> {}, failed |-> {}]

\* the value of a pure function's variable in the runs of the orchestrator
Unused == [op |-> "unused"]

VARIABLES
    record,         \* record[r]: record r as the remote database holds it
    settings,       \* the token fields of the settings singleton
    pc,             \* pc[r]: position of run r
    spectrum,       \* spectrum[r]: the Spectrum object of run r
    reference,      \* reference[r]: ref_id and the reference Spectrum
    statusLog,      \* statusLog[r]: statuses sent for record r, in order
    uploads,        \* uploads[r]: buffers handed to patch_with_processed_file
    calls,          \* calls[r]: functions invoked by run r
    exc,            \* exc[r]: the exception in flight, or NoExc
    failure,        \* failure[r]: message of the first failed step, or None
    resp,           \* resp[r]: file_patch_response, metadata_patch_response
    result,         \* result[r]: the mapping process_spectrum returns
    procMsg,        \* procMsg[r]: message given to update_processing_message
    reads,          \* reads[r]: variables run r has read
    writes,         \* writes[r]: variables run r has written
    api,            \* api[r]: what POST /processing/r answered and enqueued
    db,             \* db[r]: stored status of record r, update_status tasks run
    meta,           \* metadata merging: the inputs and the merged mappings
    det,            \* dialect detection: the buffer and the detected dialect
    conv,           \* conversion: the raw buffer and what the converter returned
    thz             \* THz analysis: the two traces and the table

\* the variables of the pure functions, which no step of a run touches
pure == <<meta, det, conv, thz>>

vars == <<record, settings, pc, spectrum, reference, statusLog, uploads, calls, exc,
          failure, resp, result, procMsg, reads, writes, api, db, pure>>

\* ---------------------------------------------------------------- Init
InitRuns ==
    /\ settings = NoTokens
    /\ spectrum = [r \in Ids |-> NoSpectrum]
    /\ reference = [r \in Ids |-> NoReference]
    /\ statusLog = [r \in Ids |-> <<>>]
    /\ uploads = [r \in Ids |-> <<>>]
    /\ calls = [r \in Ids |-> {}]
    /\ exc = [r \in Ids |-> NoExc]
    /\ failure = [r \in Ids |-> None]
    /\ resp = [r \in Ids |-> [file |-> "unset", metadata |-> "unset"]]
    /\ result = [r \in Ids |-> NoResult]
    /\ procMsg = [r \in Ids |-> None]
    /\ reads = [r \in Ids |-> {}]
    /\ writes = [r \in Ids |-> {}]
    /\ api = [r \in Ids |-> NoRequest]
    /\ db = [r \in Ids |-> NoUpdates]

\* no pure function is under study
PureUnused ==
    /\ meta = Unused
    /\ det = Unused
    /\ conv = Unused
    /\ thz = Unused

\* one processing request, for record 1
Init ==
    /\ InitRuns
    /\ PureUnused
    /\ \E rec \in Records : record = [r \in Ids |-> IF r = 1 THEN rec ELSE DefaultRecord]
    /\ pc = [r \in Ids |-> IF r = 1 THEN "idle" ELSE "off"]

\* a processing request for every record, served by one process
InitConcurrent ==
    /\ InitRuns
    /\ PureUnused
    /\ record \in [Ids -> ConcurrentRecords]
    /\ pc = [r \in Ids |-> "idle"]

\* ------------------------------------------------------- communication
GetTokenOutcomes == {"ok", "neterr", "non200", "badbody"}

\* get_token(): the token fields after the token request ended with outcome
\* o; only a 200 answer with a well-formed body stores a token
get_token(s, o) ==
    IF o = "ok"
    THEN [access_token |-> "token", refresh_token |-> "token", token_created_at |-> "time"]
    ELSE s

\* what get_token raises: nothing when the request itself fails (it logs and
\* returns None), Exception on a non-200 answer, json's error on a bad body
get_token_raises(o) ==
    CASE o = "non200" -> "Exception"
      [] o = "badbody" -> "JSONDecodeError"
      [] OTHER -> NoExc

\* login(): get_token runs when no token is cached or the cached one is older
\* than 7000 s; "cached" is the outcome where it does not run
LoginOutcomes(s) == GetTokenOutcomes \cup (IF s.token_created_at # None THEN {"cached"} ELSE {})

login(s, o) == IF o = "cached" THEN s ELSE get_token(s, o)

LoginRaises(o) == IF o = "cached" THEN NoExc ELSE get_token_raises(o)

LoginReads(o) == {Shared("settings.token_created_at")} \cup (IF o = "cached" THEN {} ELSE ConfigFields)

LoginWrites(o) == IF o = "ok" THEN TokenFields ELSE {}

\* every request reads the bearer token and the server url
RequestReads == {Shared("settings.access_token"), Shared("settings.db_url")}

\* str(e) of the exceptions
ExcMessage(e) == IF e = "Exception" THEN MsgAuth ELSE e

\* ------------------------------------------------------------ converters
\* validate_json(json_data)
validate_json(m) == m \in {"dict", "str_object", "str_scalar"}

\* convert_to_csv(raw_file, filename): the canonical table, named
\* <original-stem>.csv, or no buffer
convert_to_csv(content, filename) ==
    IF content = "unconvertible" THEN NoBuffer ELSE Buffer(CsvName(filename), content)

\* --------------------------------------------------- Spectrum's methods
\* from_dict(Spectrum, ...) with __post_init__: download_file, then to_csv;
\* peaks, peak_metadata and the buffers the record does not carry are None
NewSpectrum(rec, downloaded) ==
    [loaded |-> TRUE, filename |-> rec.filename, category |-> rec.category,
     metadata |-> rec.metadata, merged |-> FALSE,
     sample_thickness |-> rec.sample_thickness, raw_file |-> downloaded,
     csv_file |-> IF downloaded = None THEN NoBuffer
                  ELSE convert_to_csv(rec.content, rec.filename),
     peaks |-> NoPeaks, peak_metadata |-> NoPeaks]

RECURSIVE PeakListsOfLen(_)
PeakListsOfLen(n) ==
    IF n = 0 THEN {<<>>}
    ELSE {Append(s, x) : s \in PeakListsOfLen(n - 1), x \in 1..MaxPeakPos}

Distinct(s) == \A i, j \in 1..Len(s) : i # j => s[i] # s[j]

PeakLists == {s \in UNION {PeakListsOfLen(n) : n \in 0..MaxPeakPos} : Distinct(s)}

\* how find_peaks can end on a table: np.loadtxt raises on a cell that is no
\* number; on numbers the detector raises, returns nothing, or returns
\* candidates of which a (possibly empty) list passes the filter
FindPeaksOutcomes(trace) ==
    IF trace = "nonnumeric" THEN {[kind |-> "exc_loadtxt", x |-> <<>>]}
    ELSE {[kind |-> "exc_fit", x |-> <<>>], [kind |-> "noresult", x |-> <<>>]}
         \cup {[kind |-> "peaks", x |-> x] :
                 x \in IF trace = "allzero" THEN {<<>>} ELSE PeakLists}

\* Spectrum.find_peaks: an exception is logged and None returned; the buffer
\* is rewound before and after np.loadtxt, so an exception in np.loadtxt
\* leaves it at its end
find_peaks(sp, o) ==
    IF ~sp.csv_file.present THEN sp
    ELSE IF o.kind = "exc_loadtxt" THEN [sp EXCEPT !.csv_file.pos = "end"]
    ELSE IF o.kind = "peaks"
         THEN [sp EXCEPT !.csv_file.pos = "start", !.peaks = [present |-> TRUE, x |-> o.x]]
         ELSE [sp EXCEPT !.csv_file.pos = "start"]

\* Spectrum.construct_peak_metadata
construct_peak_metadata(sp) ==
    IF ~sp.peaks.present THEN sp
    ELSE [sp EXCEPT !.peak_metadata = [present |-> TRUE, x |-> sp.peaks.x]]

\* Spectrum.merge_metadata raises TypeError on a JSON text that is no object
merge_metadata_raises(sp) == sp.metadata = "str_scalar"

\* Spectrum.merge_metadata: a text or a mapping becomes the merged mapping
merge_metadata(sp) ==
    IF sp.metadata \in {"dict", "str_object"}
    THEN [sp EXCEPT !.metadata = "dict", !.merged = TRUE]
    ELSE sp

\* ------------------------------------------------------------ THz analysis
NoTable == [present |-> FALSE, finite |-> FALSE]

\* process_thz: an exception in any step is logged and None returned.  A
\* cell that is no number makes the arithmetic raise; zero traces do not:
\* numpy divides 0 by 0 with a warning and the NaN reach the table
process_thz(ref, sample) ==
    IF "nonnumeric" \in {ref, sample} THEN NoTable
    ELSE [present |-> TRUE, finite |-> ref = "numeric" /\ sample = "numeric"]

\* an entry of the upload log
Upload(name, pos, content, finite) ==
    [name |-> name, pos |-> pos, content |-> content, finite |-> finite]

\* ------------------------------------------------------- steps of a run
Goto(r, p) == pc' = [pc EXCEPT ![r] = p]

\* update_status: the PATCH of spectrum[status]; an exception of the request
\* is logged and the stored status stays
Patch(d, i, status, ok) ==
    [status |-> IF ok THEN status ELSE d.status,
     done |-> d.done \cup {i},
     failed |-> d.failed \cup (IF ok THEN {} ELSE {i})]

\* update_status.delay(id, status) hands the update to the task queue;
\* update_status(id, status) runs it in place
Send(r, status, via) ==
    /\ statusLog' = [statusLog EXCEPT ![r] = Append(@, [status |-> status, via |-> via])]
    /\ IF via = "call"
       THEN \E ok \in BOOLEAN :
              db' = [db EXCEPT ![r] = Patch(@, Len(statusLog[r]) + 1, status, ok)]
       ELSE UNCHANGED db

Return(r, m) == result' = [result EXCEPT ![r] = [message |-> m]]

Fail(r, m) == failure' = [failure EXCEPT ![r] = IF @ = None THEN m ELSE @]

Raise(r, e) ==
    /\ exc' = [exc EXCEPT ![r] = e]
    /\ Fail(r, ExcMessage(e))
    /\ Goto(r, "except")

Access(r, rd, wr) ==
    /\ reads' = [reads EXCEPT ![r] = @ \cup rd]
    /\ writes' = [writes EXCEPT ![r] = @ \cup wr]

Call(r, fs) == calls' = [calls EXCEPT ![r] = @ \cup fs]

\* the task queue takes one more task
delayTwice(n) == n + 2

\* process_routine.delay(id): one task is handed to the task queue
delay(n) == n + 1

\* POST /processing/{id}: the task is enqueued and 202 answered at once
request_processing(r) ==
    /\ pc[r] = "idle"
    /\ api' = [api EXCEPT ![r] = [status_code |-> 202, enqueued |-> delay(@.enqueued)]]
    /\ Goto(r, "queued")
    /\ UNCHANGED <<pure, db, record, settings, spectrum, reference, statusLog, uploads, calls,
                   exc, failure, resp, result, procMsg, reads, writes>>

\* a worker takes the task from the queue and enters process_routine
process_routine_received(r) ==
    /\ pc[r] = "queued"
    /\ Goto(r, "start")
    /\ UNCHANGED <<pure, api, db, record, settings, spectrum, reference, statusLog, uploads,
                   calls, exc, failure, resp, result, procMsg, reads, writes>>

\* process_spectrum, lines 150-155, with get_spectrum
PS_GetSpectrum(r) ==
    /\ pc[r] = "start"
    /\ \E lo \in LoginOutcomes(settings), go \in {"text", "neterr"} :
        /\ settings' = login(settings, lo)
        /\ Call(r, {"get_spectrum"})
        /\ Access(r, LoginReads(lo) \cup (IF LoginRaises(lo) = NoExc THEN RequestReads ELSE {}),
                  LoginWrites(lo))
        /\ IF LoginRaises(lo) # NoExc
           THEN Raise(r, LoginRaises(lo)) /\ UNCHANGED <<statusLog, db, result>>
           ELSE IF go = "neterr"
           THEN /\ Send(r, "error", "delay")
                /\ Return(r, MsgRetrieve)
                /\ Fail(r, MsgRetrieve)
                /\ Goto(r, "timeit")
                /\ UNCHANGED exc
           ELSE /\ Send(r, "ongoing", "delay")
                /\ Goto(r, "parse")
                /\ UNCHANGED <<exc, failure, result>>
    /\ UNCHANGED <<pure, api, record, spectrum, reference, uploads, resp, procMsg>>

ParseErrors == {"JSONDecodeError", "KeyError", "DaciteError"}

\* process_spectrum, lines 157-165: json.loads, from_dict, __post_init__
PS_FromDict(r) ==
    /\ pc[r] = "parse"
    /\ \E po \in {"ok"} \cup ParseErrors, dl \in {"bytes", None} :
        IF po # "ok"
        THEN Raise(r, po) /\ UNCHANGED <<spectrum, calls, reads, writes>>
        ELSE /\ spectrum' = [spectrum EXCEPT ![r] = NewSpectrum(record[r], dl)]
             /\ Call(r, {"download_file"} \cup (IF dl = None THEN {} ELSE {"convert_to_csv"}))
             /\ Access(r, {Shared("settings.db_url")}, {Local("spectrum", r)})
             /\ Goto(r, "check")
             /\ UNCHANGED <<exc, failure>>
    /\ UNCHANGED <<pure, api, record, settings, reference, statusLog, db, uploads, resp, result, procMsg>>

\* process_spectrum, lines 167-176: the two file checks and the branch
PS_CheckFiles(r) ==
    /\ pc[r] = "check"
    /\ Access(r, {Local("spectrum", r)}, {})
    /\ IF spectrum[r].raw_file = None
       THEN /\ Send(r, "error", "delay")
            /\ Return(r, MsgGetFile)
            /\ Fail(r, MsgGetFile)
            /\ Goto(r, "timeit")
            /\ UNCHANGED calls
       ELSE IF ~spectrum[r].csv_file.present
       THEN /\ Send(r, "error", "delay")
            /\ Return(r, MsgConvert)
            /\ Fail(r, MsgConvert)
            /\ Goto(r, "timeit")
            /\ UNCHANGED calls
       ELSE IF spectrum[r].category = "thz"
       THEN /\ Call(r, {"handle_thz"})
            /\ Goto(r, "thz_lookup")
            /\ UNCHANGED <<statusLog, db, result, failure>>
       ELSE /\ Goto(r, "find_peaks")
            /\ UNCHANGED <<statusLog, db, result, failure, calls>>
    /\ UNCHANGED <<pure, api, record, settings, spectrum, reference, uploads, exc, resp, procMsg>>

\* process_spectrum, lines 179-180
PS_FindPeaks(r) ==
    /\ pc[r] = "find_peaks"
    /\ \E o \in FindPeaksOutcomes(spectrum[r].csv_file.trace) :
        spectrum' = [spectrum EXCEPT ![r] = construct_peak_metadata(find_peaks(@, o))]
    /\ Call(r, {"find_peaks", "construct_peak_metadata"})
    /\ Access(r, {Local("spectrum", r)}, {Local("spectrum", r)})
    /\ Goto(r, "patch")
    /\ UNCHANGED <<pure, api, record, settings, reference, statusLog, db, uploads, exc, failure, resp,
                   result, procMsg>>

\* process_spectrum, lines 182-184, with patch_with_processed_file
PS_PatchFile(r) ==
    /\ pc[r] = "patch"
    /\ \E fr \in {"Response", None} : resp' = [resp EXCEPT ![r].file = fr]
    /\ uploads' = [uploads EXCEPT ![r] =
                     Append(@, Upload(spectrum[r].csv_file.name, spectrum[r].csv_file.pos,
                                      "two_column", spectrum[r].csv_file.trace = "numeric"))]
    /\ Call(r, {"patch_with_processed_file"})
    /\ Access(r, {Local("spectrum", r)} \cup RequestReads, {})
    /\ Goto(r, "metadata")
    /\ UNCHANGED <<pure, api, record, settings, spectrum, reference, statusLog, db, exc, failure, result,
                   procMsg>>

\* process_spectrum, lines 186-192, with update_metadata called in place
PS_Metadata(r) ==
    /\ pc[r] = "metadata"
    /\ IF validate_json(spectrum[r].metadata) /\ spectrum[r].peak_metadata.present
       THEN IF merge_metadata_raises(spectrum[r])
            THEN /\ Raise(r, "TypeError")
                 /\ Call(r, {"merge_metadata"})
                 /\ Access(r, {Local("spectrum", r)}, {})
                 /\ UNCHANGED <<spectrum, resp>>
            ELSE /\ spectrum' = [spectrum EXCEPT ![r] = merge_metadata(@)]
                 /\ \E mr \in {"Response", None} : resp' = [resp EXCEPT ![r].metadata = mr]
                 /\ Call(r, {"merge_metadata", "update_metadata"})
                 /\ Access(r, {Local("spectrum", r)} \cup RequestReads, {Local("spectrum", r)})
                 /\ Goto(r, "finish")
                 /\ UNCHANGED <<exc, failure>>
       ELSE /\ resp' = [resp EXCEPT ![r].metadata = None]
            /\ Access(r, {Local("spectrum", r)}, {})
            /\ Goto(r, "finish")
            /\ UNCHANGED <<spectrum, calls, exc, failure>>
    /\ UNCHANGED <<pure, api, record, settings, reference, statusLog, db, uploads, result, procMsg>>

\* the end of process_spectrum when only the answer of the file upload is
\* looked at
PS_FinishFileOnly(r) ==
    /\ pc[r] = "finish"
    /\ IF resp[r].file = None
       THEN /\ Send(r, "error", "delay")
            /\ Return(r, MsgUpload)
            /\ Fail(r, MsgUpload)
       ELSE /\ Send(r, "successful", "delay")
            /\ Return(r, MsgDone)
            /\ UNCHANGED failure
    /\ Goto(r, "timeit")
    /\ UNCHANGED <<pure, api, record, settings, spectrum, reference, uploads, calls, exc, resp, procMsg,
                   reads, writes>>

\* process_spectrum, lines 194-202
PS_Finish(r) ==
    /\ pc[r] = "finish"
    /\ IF resp[r].metadata = None \/ resp[r].file = None
       THEN /\ Send(r, "error", "delay")
            /\ Return(r, MsgUpload)
            /\ Fail(r, MsgUpload)
       ELSE /\ Send(r, "successful", "delay")
            /\ Return(r, MsgDone)
            /\ UNCHANGED failure
    /\ Goto(r, "timeit")
    /\ UNCHANGED <<pure, api, record, settings, spectrum, reference, uploads, calls, exc, resp, procMsg,
                   reads, writes>>

\* process_spectrum, lines 203-205: the handler of the function-wide try
PS_Except(r) ==
    /\ pc[r] = "except"
    /\ IF Catches(exc[r])
       THEN /\ Return(r, MsgProcessing)
            /\ exc' = [exc EXCEPT ![r] = NoExc]
            /\ Goto(r, "timeit")
       ELSE /\ Goto(r, "raised")
            /\ UNCHANGED <<result, exc>>
    /\ UNCHANGED <<pure, api, record, settings, spectrum, reference, statusLog, db, uploads, calls, failure,
                   resp, procMsg, reads, writes>>

\* handle_thz, lines 338-344, with retrieve_reference_spectrum_id and
\* list_spectra: every failure of the lookup, an exception of login()
\* included, is caught there and reads as "no reference"
HT_RetrieveReference(r) ==
    /\ pc[r] = "thz_lookup"
    /\ IF spectrum[r].raw_file = None
       THEN /\ Send(r, "error", "delay")
            /\ Fail(r, MsgProcessing)
            /\ Goto(r, "thz_return")
            /\ UNCHANGED <<settings, reference, calls, reads, writes>>
       ELSE \E lo \in LoginOutcomes(settings), lr \in {"list", "neterr", "badjson"} :
            LET found == /\ LoginRaises(lo) = NoExc
                         /\ lr = "list"
                         /\ record[r].reference # "absent"
            IN /\ settings' = login(settings, lo)
               /\ reference' = [reference EXCEPT ![r].ref_id = IF found THEN "ref" ELSE None]
               /\ Call(r, {"retrieve_reference_spectrum_id", "list_spectra"})
               /\ Access(r, {Local("spectrum", r)} \cup LoginReads(lo)
                            \cup (IF LoginRaises(lo) = NoExc THEN RequestReads ELSE {}),
                         LoginWrites(lo))
               /\ Goto(r, IF found THEN "thz_get_ref" ELSE "thz_fallback")
               /\ UNCHANGED <<statusLog, db, failure>>
    /\ UNCHANGED <<pure, api, record, spectrum, uploads, exc, resp, result, procMsg>>

\* handle_thz, lines 345-348, with get_spectrum; update_status is called in
\* place here, not enqueued
HT_GetReference(r) ==
    /\ pc[r] = "thz_get_ref"
    /\ \E lo \in LoginOutcomes(settings), go \in {"text", "neterr"} :
        /\ settings' = login(settings, lo)
        /\ Call(r, {"get_spectrum"})
        /\ Access(r, LoginReads(lo) \cup (IF LoginRaises(lo) = NoExc THEN RequestReads ELSE {}),
                  LoginWrites(lo))
        /\ IF LoginRaises(lo) # NoExc
           THEN Raise(r, LoginRaises(lo)) /\ UNCHANGED <<statusLog, db>>
           ELSE IF go = "neterr"
           THEN /\ Send(r, "error", "call")
                /\ Fail(r, MsgRetrieveRef)
                /\ Goto(r, "thz_return")
                /\ UNCHANGED exc
           ELSE /\ Goto(r, "thz_load_ref")
                /\ UNCHANGED <<exc, failure, statusLog, db>>
    /\ UNCHANGED <<pure, api, record, spectrum, reference, uploads, resp, result, procMsg>>

\* the reference Spectrum that from_dict builds
NewReference(ref, content, filename, downloaded) ==
    [ref EXCEPT !.loaded = TRUE, !.raw_file = downloaded,
                !.csv_file = IF downloaded = None THEN NoBuffer
                             ELSE convert_to_csv(content, filename)]

\* handle_thz, lines 350-371: the reference is built and the inputs of the
\* analysis are checked
HT_LoadReference(r) ==
    /\ pc[r] = "thz_load_ref"
    /\ \E po \in {"ok"} \cup ParseErrors, dl \in {"bytes", None} :
        IF po # "ok"
        THEN Raise(r, po) /\ UNCHANGED <<reference, statusLog, db, calls, reads, writes>>
        ELSE LET ref == NewReference(reference[r], record[r].reference, <<"s", "txt">>, dl)
             IN /\ reference' = [reference EXCEPT ![r] = ref]
                /\ Call(r, {"download_file"} \cup (IF dl = None THEN {} ELSE {"convert_to_csv"}))
                /\ Access(r, {Shared("settings.db_url"), Local("spectrum", r)},
                          {Local("ref_spectrum", r)})
                /\ UNCHANGED exc
                /\ IF ref.raw_file = None
                   THEN Send(r, "error", "delay") /\ Fail(r, MsgGetFile) /\ Goto(r, "thz_return")
                   ELSE IF ~ref.csv_file.present \/ ~spectrum[r].csv_file.present
                   THEN Send(r, "error", "delay") /\ Fail(r, MsgProcessing)
                        /\ Goto(r, "thz_return")
                   ELSE IF spectrum[r].sample_thickness = None
                   THEN Send(r, "error", "delay") /\ Fail(r, MsgThickness)
                        /\ Goto(r, "thz_return")
                   ELSE Goto(r, "thz_process") /\ UNCHANGED <<statusLog, db, failure>>
    /\ UNCHANGED <<pure, api, record, settings, spectrum, uploads, resp, result, procMsg>>

\* handle_thz, lines 373-391, with process_thz and the upload of its table
HT_ProcessThz(r) ==
    /\ pc[r] = "thz_process"
    /\ LET thz_data == process_thz(reference[r].csv_file.trace, spectrum[r].csv_file.trace)
       IN /\ Call(r, {"process_thz"}
                     \cup (IF thz_data.present THEN {"patch_with_processed_file"} ELSE {}))
          /\ Access(r, {Local("spectrum", r), Local("ref_spectrum", r)}
                       \cup (IF thz_data.present THEN RequestReads ELSE {}), {})
          /\ IF thz_data.present
             THEN /\ uploads' = [uploads EXCEPT ![r] =
                                   Append(@, Upload(ThzName(spectrum[r].filename), "start",
                                                    "five_column", thz_data.finite))]
                  /\ \E fr \in {"Response", None} :
                       /\ resp' = [resp EXCEPT ![r].file = fr]
                       /\ IF fr = None
                          THEN Send(r, "error", "delay") /\ Fail(r, MsgUpload)
                          ELSE Send(r, "successful", "delay") /\ UNCHANGED failure
             ELSE /\ Send(r, "error", "delay")
                  /\ Fail(r, MsgProcessing)
                  /\ UNCHANGED <<uploads, resp>>
    /\ Goto(r, "thz_return")
    /\ UNCHANGED <<pure, api, record, settings, spectrum, reference, exc, result, procMsg>>

\* handle_thz, lines 393-414: no reference, the converted sample is uploaded
\* the status of the fallback when a missing reference counts as an error
FallbackStatusAlwaysError(fr) == "error"

\* the status handle_thz sends after the fallback upload
FallbackStatus(fr) == IF fr = None THEN "error" ELSE "successful"

HT_Fallback(r) ==
    /\ pc[r] = "thz_fallback"
    /\ Access(r, {Local("spectrum", r)}
                 \cup (IF spectrum[r].csv_file.present THEN RequestReads ELSE {}), {})
    /\ IF ~spectrum[r].csv_file.present
       THEN /\ Send(r, "error", "delay")
            /\ Fail(r, MsgConvert)
            /\ UNCHANGED <<uploads, resp, calls>>
       ELSE /\ uploads' = [uploads EXCEPT ![r] =
                             Append(@, Upload(spectrum[r].csv_file.name,
                                              spectrum[r].csv_file.pos, "two_column",
                                              spectrum[r].csv_file.trace = "numeric"))]
            /\ Call(r, {"patch_with_processed_file"})
            /\ \E fr \in {"Response", None} :
                 /\ resp' = [resp EXCEPT ![r].file = fr]
                 /\ Send(r, FallbackStatus(fr), "delay")
                 /\ IF fr = None THEN Fail(r, MsgUpload) ELSE UNCHANGED failure
    /\ Goto(r, "thz_return")
    /\ UNCHANGED <<pure, api, record, settings, spectrum, reference, exc, result, procMsg>>

\* a THz record falls through to the peak analysis
PS_ThzFallthrough(r) ==
    /\ pc[r] = "thz_return"
    /\ Goto(r, "find_peaks")
    /\ UNCHANGED <<pure, api, record, settings, spectrum, reference, statusLog, db, uploads, calls, exc,
                   failure, resp, result, procMsg, reads, writes>>

\* process_spectrum, line 177: what handle_thz returned is dropped
PS_ThzReturn(r) ==
    /\ pc[r] = "thz_return"
    /\ Return(r, MsgDoneThz)
    /\ Goto(r, "timeit")
    /\ UNCHANGED <<pure, api, record, settings, spectrum, reference, statusLog, db, uploads, calls, exc,
                   failure, resp, procMsg, reads, writes>>

\* timeit_wrapper: the returned mapping gets its execution time
timeit_wrapper(r) ==
    /\ pc[r] = "timeit"
    /\ result' = [result EXCEPT ![r] =
                    [k \in DOMAIN @ \cup {"execution_time"} |->
                       IF k = "execution_time" THEN "seconds" ELSE @[k]]]
    /\ Goto(r, "routine")
    /\ UNCHANGED <<pure, api, record, settings, spectrum, reference, statusLog, db, uploads, calls, exc,
                   failure, resp, procMsg, reads, writes>>

\* process_routine: the message goes to update_processing_message
process_routine(r) ==
    /\ pc[r] = "routine"
    /\ procMsg' = [procMsg EXCEPT ![r] = result[r]["message"]]
    /\ Goto(r, "done")
    /\ UNCHANGED <<pure, api, record, settings, spectrum, reference, statusLog, db, uploads, calls, exc,
                   failure, resp, result, reads, writes>>

Next ==
    \E r \in Ids :
        \/ request_processing(r)
        \/ process_routine_received(r)
        \/ PS_GetSpectrum(r)
        \/ PS_FromDict(r)
        \/ PS_CheckFiles(r)
        \/ PS_FindPeaks(r)
        \/ PS_PatchFile(r)
        \/ PS_Metadata(r)
        \/ PS_Finish(r)
        \/ PS_Except(r)
        \/ HT_RetrieveReference(r)
        \/ HT_GetReference(r)
        \/ HT_LoadReference(r)
        \/ HT_ProcessThz(r)
        \/ HT_Fallback(r)
        \/ PS_ThzReturn(r)
        \/ timeit_wrapper(r)
        \/ process_routine(r)

Spec == Init /\ [][Next]_vars

SpecConcurrent == InitConcurrent /\ [][Next]_vars

\* ------------------------------------------------------------ properties
\* process_spectrum has returned (through timeit_wrapper)
Returned(r) == pc[r] \in {"routine", "done"}

\* handle_thz has been entered and left
ThzLeft(r) == "handle_thz" \in calls[r] /\ pc[r] \notin {"thz_lookup", "thz_get_ref",
                                                         "thz_load_ref", "thz_process",
                                                         "thz_fallback", "except"}

Statuses(r) == {statusLog[r][i].status : i \in DOMAIN statusLog[r]}

LastStatus(r) == IF statusLog[r] = <<>> THEN None ELSE statusLog[r][Len(statusLog[r])].status

PeakBranch == {"find_peaks", "construct_peak_metadata", "merge_metadata", "update_metadata"}

\* C1: once process_spectrum has returned, a failure of any step has sent
\* status "error", and "ongoing" is not the last status sent for the record.
C1_FailureSendsError ==
    \A r \in Ids :
        Returned(r) =>
            /\ failure[r] # None => "error" \in Statuses(r)
            /\ LastStatus(r) # "ongoing"

\* C2: when authentication fails with a non-200 answer, the mapping
\* process_spectrum returns has a "status" field equal to "error".
C2_AuthFailureStatusField ==
    \A r \in Ids :
        Returned(r) /\ failure[r] = MsgAuth =>
            /\ "status" \in DOMAIN result[r]
            /\ result[r]["status"] = "error"

\* C3: when a step has failed, the message process_spectrum returns and
\* process_routine forwards is the message of that failure, never a "Done
\* processing" message.
C3_FailureMessagePreserved ==
    \A r \in Ids :
        pc[r] = "done" /\ failure[r] # None =>
            /\ result[r]["message"] = failure[r]
            /\ procMsg[r] = failure[r]
            /\ procMsg[r] \notin DoneMessages

\* C4: for a THz record whose parent has no reference record, handle_thz
\* uploads exactly the converted two-column csv of the sample, process_thz is
\* never invoked, and if the upload returned a response the only terminal
\* status sent is "successful".
C4_MissingReferenceFallback ==
    \A r \in Ids :
        record[r].reference = "absent" =>
            /\ "process_thz" \notin calls[r]
            /\ ThzLeft(r) =>
                 /\ Len(uploads[r]) = 1
                 /\ uploads[r][1].content = "two_column"
                 /\ uploads[r][1].name = spectrum[r].csv_file.name
                 /\ resp[r].file = "Response" =>
                      LastStatus(r) = "successful" /\ "error" \notin Statuses(r)

C4_Witness ==
    \E r \in Ids :
        /\ pc[r] = "done"
        /\ spectrum[r].category = "thz"
        /\ record[r].reference = "absent"
        /\ "handle_thz" \in calls[r]
        /\ resp[r].file = "Response"
        /\ LastStatus(r) = "successful"

\* C5: a run on a record of category "thz" never invokes find_peaks,
\* construct_peak_metadata, merge_metadata or update_metadata.
C5_ThzSkipsPeakBranch ==
    \A r \in Ids :
        spectrum[r].loaded /\ spectrum[r].category = "thz" => calls[r] \cap PeakBranch = {}

C5_Witness ==
    \E r \in Ids :
        /\ pc[r] = "done"
        /\ spectrum[r].category = "thz"
        /\ "process_thz" \in calls[r]
        /\ calls[r] \cap PeakBranch = {}

\* C6: for a non-THz record whose conversion and uploads succeed and whose
\* metadata is valid, a run that finds no peaks (an empty filtered list, no
\* detector result, or an exception inside find_peaks) ends "successful".
C6_NoPeaksIsSuccessful ==
    \A r \in Ids :
        /\ Returned(r)
        /\ record[r].category # "thz"
        /\ record[r].metadata \in {"dict", "str_object"}
        /\ "find_peaks" \in calls[r]
        /\ spectrum[r].peaks.x = <<>>
        /\ resp[r].file = "Response"
        /\ "update_metadata" \in calls[r] => resp[r].metadata = "Response"
        => LastStatus(r) = "successful"

\* C7: no exception leaves process_spectrum: whatever fails, the run returns
\* a mapping with a message.
C7_NeverRaises ==
    \A r \in Ids :
        /\ pc[r] # "raised"
        /\ Returned(r) => "message" \in DOMAIN result[r]

C7_Witness ==
    \E r \in Ids :
        /\ pc[r] = "done"
        /\ failure[r] \in {ExcMessage(e) : e \in ExceptionTypes}
        /\ result[r]["message"] = MsgProcessing

\* C8: when the THz analysis runs on traces it cannot analyse (a cell that
\* is no number, or degenerate traces), handle_thz uploads no five-column
\* table and sends status "error".
C8_ThzFailureUploadsNothing ==
    \A r \in Ids :
        /\ "process_thz" \in calls[r]
        /\ {reference[r].csv_file.trace, spectrum[r].csv_file.trace} # {"numeric"}
        => /\ \A i \in DOMAIN uploads[r] : uploads[r][i].content # "five_column"
           /\ "error" \in Statuses(r)

\* C9: no variable written during the processing of one record is read or
\* written during the processing of another record.
C9_NoSharedVariable ==
    \A r1, r2 \in Ids :
        r1 # r2 => writes[r1] \cap (reads[r2] \cup writes[r2]) = {}

\* C9 (amended): the only variables written during the processing of one
\* record and read or written during the processing of another are the
\* token fields of the settings singleton.
C9_OnlyTokenShared ==
    \A r1, r2 \in Ids :
        r1 # r2 => writes[r1] \cap (reads[r2] \cup writes[r2]) \subseteq TokenFields

C9_Witness ==
    \E r1, r2 \in Ids :
        /\ r1 # r2
        /\ pc[r1] = "done" /\ pc[r2] = "done"
        /\ Local("spectrum", r1) \in writes[r1]
        /\ Local("spectrum", r2) \in writes[r2]
        /\ writes[r1] \cap reads[r2] # {}

\* C10: every buffer handed to patch_with_processed_file is named
\* <original-stem>.csv, the stem being the record's filename without its
\* extension.
C10_UploadNamedStemCsv ==
    \A r \in Ids :
        \A i \in DOMAIN uploads[r] :
            uploads[r][i].name = BufferName(OriginalStem(record[r].filename), "")

\* ------------------------------------------------ the pure functions
\* the variables of the runs, which no pure function touches
runs == <<record, settings, pc, spectrum, reference, statusLog, uploads, calls, exc,
          failure, resp, result, procMsg, reads, writes, api, db>>

\* no processing is requested
RunsOff ==
    /\ InitRuns
    /\ record = [r \in Ids |-> DefaultRecord]
    /\ pc = [r \in Ids |-> "off"]

\* ------------------------------------------------ merging of metadata
MaxMetaValues == 2
MaxFoundPeaks == 2

\* a number, and the text str() makes of a number
Float(x) == [type |-> "float", value |-> x]

str(v) == [type |-> "str", value |-> v.value]

\* a mapping without keys
EmptyDict == [k \in {} |-> 0]

Absent == [present |-> FALSE, value |-> 0]

Present(v) == [present |-> TRUE, value |-> v]

Item(k, v) == IF v.present THEN k :> v.value ELSE EmptyDict

\* the peak lists find_peaks can return, in detector order
FoundPeaks ==
    {s \in UNION {[1..n -> 1..MaxFoundPeaks] : n \in 0..MaxFoundPeaks} : Distinct(s)}

\* {"peaks": [...]} as an earlier processing stored it, with either writer
StoredPeaks ==
    {[i \in DOMAIN s |-> [position |-> Float(s[i])]] : s \in FoundPeaks}
    \cup {[i \in DOMAIN s |-> [position |-> str(Float(s[i]))]] : s \in FoundPeaks}

\* the mappings a record's metadata can hold
MetadataDicts ==
    {Item("title", t) @@ Item("date", d) @@ Item("peaks", p) :
        t \in {Absent} \cup {Present(v) : v \in 1..MaxMetaValues},
        d \in {Absent} \cup {Present(v) : v \in 1..MaxMetaValues},
        p \in {Absent} \cup {Present(v) : v \in StoredPeaks}}

NoMetadata == [type |-> "NoneType", obj |-> EmptyDict]

\* the metadata of a record: a mapping, the JSON text of one, or None
MetadataInputs ==
    {[type |-> t, obj |-> d] : t \in {"dict", "str"}, d \in MetadataDicts}
    \cup {NoMetadata}

json_loads(m) == m.obj

\* {**a, **b} with the keys of a taking precedence
DictUnpackKeepsFirst(a, b) ==
    [k \in DOMAIN a \cup DOMAIN b |-> IF k \in DOMAIN a THEN a[k] ELSE b[k]]

\* {**a, **b}: the keys of both, b's value where both have the key
DictUnpack(a, b) ==
    [k \in DOMAIN a \cup DOMAIN b |-> IF k \in DOMAIN b THEN b[k] ELSE a[k]]

\* Spectrum.construct_peak_metadata on a peak list
PeakData(peaks) ==
    "peaks" :> [i \in DOMAIN peaks |-> [position |-> Float(peaks[i])]]

\* Spectrum.merge_metadata on the metadata itself
Spectrum_merge_metadata(metadata, additional_metadata) ==
    IF metadata.type = "str"
    THEN [type |-> "dict", obj |-> DictUnpack(json_loads(metadata), additional_metadata)]
    ELSE IF metadata.type = "dict"
    THEN [type |-> "dict", obj |-> DictUnpack(metadata.obj, additional_metadata)]
    ELSE metadata

\* converters.construct_metadata
construct_metadata(init, peak_data) ==
    LET peak_metadata ==
            "peaks" :> [i \in DOMAIN peak_data |-> [position |-> str(Float(peak_data[i]))]]
    IN IF init.type = "str"
       THEN [type |-> "dict", obj |-> DictUnpack(json_loads(init), peak_metadata)]
       ELSE IF init.type = "dict"
       THEN [type |-> "dict", obj |-> DictUnpack(init.obj, peak_metadata)]
       ELSE NoMetadata

InitMerge ==
    /\ RunsOff
    /\ \E m \in MetadataInputs, x \in FoundPeaks :
         meta = [op |-> "input", init |-> m, peaks |-> x, out |-> NoMetadata,
                 again |-> NoMetadata]
    /\ det = Unused
    /\ conv = Unused
    /\ thz = Unused

\* process_spectrum, lines 179-188: the peak metadata is built and merged
MergeMetadata ==
    /\ meta.op = "input"
    /\ meta' = [meta EXCEPT !.op = "merge_metadata",
                            !.out = Spectrum_merge_metadata(meta.init, PeakData(meta.peaks))]
    /\ UNCHANGED <<runs, det, conv, thz>>

\* the same peak metadata is merged into the merged metadata
MergeMetadataAgain ==
    /\ meta.op = "merge_metadata"
    /\ meta' = [meta EXCEPT !.op = "merge_metadata_twice",
                            !.again = Spectrum_merge_metadata(meta.out, PeakData(meta.peaks))]
    /\ UNCHANGED <<runs, det, conv, thz>>

ConstructMetadata ==
    /\ meta.op = "input"
    /\ meta' = [meta EXCEPT !.op = "construct_metadata",
                            !.out = construct_metadata(meta.init, meta.peaks)]
    /\ UNCHANGED <<runs, det, conv, thz>>

ConstructMetadataAgain ==
    /\ meta.op = "construct_metadata"
    /\ meta' = [meta EXCEPT !.op = "construct_metadata_twice",
                            !.again = construct_metadata(meta.out, meta.peaks)]
    /\ UNCHANGED <<runs, det, conv, thz>>

NextMerge ==
    \/ MergeMetadata
    \/ MergeMetadataAgain
    \/ ConstructMetadata
    \/ ConstructMetadataAgain

SpecMerge == InitMerge /\ [][NextMerge]_vars

\* the merge has been applied to metadata that is a mapping or its text
Merged == meta.op \notin {"unused", "input"} /\ meta.init.type # "NoneType"

\* every key but "peaks" keeps its value
KeepsOtherKeys ==
    \A k \in DOMAIN meta.init.obj \ {"peaks"} :
        k \in DOMAIN meta.out.obj /\ meta.out.obj[k] = meta.init.obj[k]

\* "peaks" holds one entry per found peak, in detector order, whose position
\* is what Position makes of the peak
PeaksAre(Position(_)) ==
    /\ "peaks" \in DOMAIN meta.out.obj
    /\ Len(meta.out.obj["peaks"]) = Len(meta.peaks)
    /\ \A i \in DOMAIN meta.peaks :
         meta.out.obj["peaks"][i] = [position |-> Position(Float(meta.peaks[i]))]

Number(v) == v

\* merging the same peak metadata again changes nothing
SecondMergeChangesNothing ==
    meta.op \in {"merge_metadata_twice", "construct_metadata_twice"} => meta.again = meta.out

\* C11 as stated: after merge_metadata or construct_metadata every key other
\* than "peaks" keeps its original value, "peaks" holds one {"position": x}
\* per found peak x in detector order, and a second merge changes nothing
C11_MergedPositionsAreNumbers ==
    Merged => KeepsOtherKeys /\ PeaksAre(Number) /\ SecondMergeChangesNothing

\* C11, amended: the same, except that construct_metadata stores the position
\* of a peak as the text str(x), while merge_metadata stores the number x
C11_MergeKeepsKeysReplacesPeaks ==
    Merged =>
        /\ KeepsOtherKeys
        /\ IF meta.op \in {"merge_metadata", "merge_metadata_twice"}
           THEN PeaksAre(Number)
           ELSE PeaksAre(str)
        /\ SecondMergeChangesNothing

\* a JSON text with other keys and stored peaks has been merged twice with
\* two found peaks
C11_Witness ==
    /\ meta.op \in {"merge_metadata_twice", "construct_metadata_twice"}
    /\ meta.init.type = "str"
    /\ {"title", "peaks"} \subseteq DOMAIN meta.init.obj
    /\ Len(meta.peaks) = 2
    /\ meta.init.obj["peaks"] # meta.out.obj["peaks"]

\* ------------------------------------------------ the dialect registry
MaxSpaces == 1
MaxMatchers == 3

\* how a number is written: digits only, with a dot, with a comma
NumberForms == {"digits", "dot", "comma"}

\* what separates the two numbers of a line: a lead character, then spaces
Separator(lead, spaces) == [lead |-> lead, spaces |-> spaces]

NoSeparator == Separator("", 0)

Separators ==
    {Separator("tab", 0), Separator(",", 0), Separator(";", 1)}
    \cup {Separator(l, n) : l \in {"", "tab", ","}, n \in 1..MaxSpaces}

\* the header lines the registry names, and a line no matcher accepts
HeaderTexts == {"Wavelenght Spectrum", "Integration delay 5",
                "//Monochromator: registration results", "nm; %R",
                "wave number Dark Subtracted ...", "other"}

TextLine(t) == [kind |-> "text", text |-> t, left |-> "", sep |-> NoSeparator, right |-> ""]

NumberLine(form) ==
    [kind |-> "number", text |-> "", left |-> form, sep |-> NoSeparator, right |-> ""]

PairLine(l, s, r) == [kind |-> "pair", text |-> "", left |-> l, sep |-> s, right |-> r]

\* the stripped lines of a buffer; a pair that mixes the two radix points is
\* accepted by no matcher and stands with the other text
Lines ==
    {TextLine(t) : t \in HeaderTexts}
    \cup {NumberLine("digits"), TextLine("")}
    \cup {PairLine(p[1], s, p[2]) :
             p \in {q \in NumberForms \X NumberForms : {q[1], q[2]} # {"dot", "comma"}},
             s \in Separators}

Buffers == UNION {[1..n -> Lines] : n \in 1..MaxMatchers}

\* the patterns of numbers: [+-]?([0-9]*[.])?[0-9]+, the same with [,], and
\* [0-9]+
MatchesNumber(re, form) ==
    CASE re = "dot" -> form \in {"digits", "dot"}
      [] re = "comma" -> form \in {"digits", "comma"}
      [] re = "digits" -> form = "digits"

\* " +" when it also accepts a tab
OneOrMoreBlanks(s) == s.lead \in {"", "tab"} /\ (s.lead = "tab" \/ s.spaces >= 1)

\* " +"
OneOrMoreSpaces(s) == s.lead = "" /\ s.spaces >= 1

\* the patterns between the two numbers
MatchesSeparator(re, s) ==
    CASE re = "\t" -> s = Separator("tab", 0)
      [] re = " " -> s = Separator("", 1)
      [] re = " +" -> OneOrMoreSpaces(s)
      [] re = "[ \t]+" -> s.lead \in {"", "tab"}
      [] re = "\t +" -> s.lead = "tab" /\ s.spaces >= 1
      [] re = "," -> s = Separator(",", 0)
      [] re = ", +" -> s.lead = "," /\ s.spaces >= 1
      [] re = "; " -> s = Separator(";", 1)

\* the compiled patterns of the registry
Text(t) == [kind |-> "text", text |-> t, left |-> "", sep |-> "", right |-> ""]

Digits == [kind |-> "number", text |-> "", left |-> "digits", sep |-> "", right |-> ""]

Pair(l, s, r) == [kind |-> "pair", text |-> "", left |-> l, sep |-> s, right |-> r]

\* pattern.match(line) on a stripped line
match(pattern, line) ==
    /\ line.kind = pattern.kind
    /\ CASE pattern.kind = "text" -> line.text = pattern.text
         [] pattern.kind = "number" -> MatchesNumber(pattern.left, line.left)
         [] pattern.kind = "pair" -> /\ MatchesNumber(pattern.left, line.left)
                                     /\ MatchesSeparator(pattern.sep, line.sep)
                                     /\ MatchesNumber(pattern.right, line.right)

\* the keys of filetypes, in the order of their declaration
filetypes == <<"libs.spectable", "libs.spec", "reflectance.mon", "reflectance.csv",
               "raman.txt", "raman2.txt", "ftir.dpt", "xrd.txt", "xrf.txt", "xrf.dat",
               "xrd.xy", "thz.txt", "thz2.txt", "xrf2.txt">>

Dialects == {filetypes[i] : i \in DOMAIN filetypes}

Thrice(p) == <<p, p, p>>

\* filetypes[d]["line_matchers"]
line_matchers(d) ==
    CASE d = "libs.spectable" -> <<Text("Wavelenght Spectrum"), Text("Integration delay 5"),
                                   Pair("comma", "\t", "comma")>>
      [] d = "libs.spec" -> <<Digits, Digits, Pair("comma", "[ \t]+", "comma")>>
      [] d = "reflectance.mon" -> <<Text("//Monochromator: registration results")>>
      [] d = "reflectance.csv" -> <<Text("nm; %R"), Pair("comma", "; ", "comma"),
                                    Pair("comma", "; ", "comma")>>
      [] d = "raman.txt" -> <<Pair("dot", "\t", "dot")>>
      [] d = "raman2.txt" -> <<Text("wave number Dark Subtracted ...")>>
      [] d = "ftir.dpt" -> <<Pair("dot", ",", "dot")>>
      [] d = "xrd.txt" -> Thrice(Pair("dot", " +", "digits"))
      [] d = "xrf.txt" -> Thrice(Pair("dot", "\t +", "dot"))
      [] d = "xrf.dat" -> <<Pair("dot", " ", "dot"), Digits, Digits>>
      [] d = "xrd.xy" -> Thrice(Pair("dot", " ", "dot"))
      [] d = "thz.txt" -> Thrice(Pair("comma", "\t", "comma"))
      [] d = "thz2.txt" -> Thrice(Pair("comma", " ", "comma"))
      [] d = "xrf2.txt" -> Thrice(Pair("dot", ", +", "digits"))

\* the i-th leading line, stripped; past the end of the buffer a line is empty
LeadingLine(buffer, i) == IF i \in DOMAIN buffer THEN buffer[i] ELSE TextLine("")

\* every line matcher of the dialect accepts its leading line
FullyMatches(d, buffer) ==
    \A i \in DOMAIN line_matchers(d) : match(line_matchers(d)[i], LeadingLine(buffer, i))

Matching(buffer) == {d \in Dialects : FullyMatches(d, buffer)}

\* ------------------------------------------------ detection of the dialect
UnsupportedFiletype == "UnsupportedFiletype"

\* the first line matcher of the dialect accepts the first line
first_matcher_succeeds(d, buffer) == match(line_matchers(d)[1], LeadingLine(buffer, 1))

\* as many leading lines as the dialect has matchers are read and stripped,
\* and every matcher must accept its line
line_matchers_succeed(d, buffer) ==
    \A i \in 1..Len(line_matchers(d)) : match(line_matchers(d)[i], LeadingLine(buffer, i))

RECURSIVE detect_from(_, _)
\* the dialects are tried in registry order from the i-th on
detect_from(buffer, i) ==
    IF i > Len(filetypes) THEN UnsupportedFiletype
    ELSE IF line_matchers_succeed(filetypes[i], buffer) THEN filetypes[i]
    ELSE detect_from(buffer, i + 1)

detect_filetype(buffer) == detect_from(buffer, 1)

InitDetect ==
    /\ RunsOff
    /\ \E b \in Buffers : det = [op |-> "buffer", buffer |-> b, result |-> ""]
    /\ meta = Unused
    /\ conv = Unused
    /\ thz = Unused

\* the detector runs on the buffer
Detect ==
    /\ det.op = "buffer"
    /\ det' = [det EXCEPT !.op = "detected", !.result = detect_filetype(det.buffer)]
    /\ UNCHANGED <<runs, meta, conv, thz>>

NextDetect == Detect

SpecDetect == InitDetect /\ [][NextDetect]_vars

\* the dialects that can only be told apart by registry order
TabSeparated == {"raman.txt", "thz.txt"}

SpaceSeparated == {"xrd.txt", "xrd.xy", "thz2.txt"}

\* C12 as stated: at most one dialect of the registry has all of its line
\* matchers succeed on the leading stripped lines of a buffer
C12_AtMostOneDialectMatches ==
    det.op # "unused" => Cardinality(Matching(det.buffer)) <= 1

\* C12, amended: a buffer is fully matched by no dialect, by one, or by
\* several dialects that are all tab-separated two-column dialects
\* (raman.txt, thz.txt) or all space-separated ones (xrd.txt, xrd.xy,
\* thz2.txt)
C12_AmbiguityWithinFamilies ==
    det.op # "unused" =>
        \/ Cardinality(Matching(det.buffer)) <= 1
        \/ Matching(det.buffer) \subseteq TabSeparated
        \/ Matching(det.buffer) \subseteq SpaceSeparated

\* three lines of space-separated integers: every space-separated dialect
\* matches
C12_Witness ==
    /\ det.op = "detected"
    /\ Matching(det.buffer) = SpaceSeparated

Position(d) == CHOOSE i \in DOMAIN filetypes : filetypes[i] = d

\* C13: detection returns the first dialect in declaration order whose every
\* line matcher succeeds on its leading line, never a later one when an
\* earlier one fully matches, and UnsupportedFiletype when none fully matches
C13_FirstFullMatchWins ==
    det.op = "detected" =>
        IF Matching(det.buffer) = {}
        THEN det.result = UnsupportedFiletype
        ELSE /\ det.result \in Matching(det.buffer)
             /\ \A d \in Matching(det.buffer) : Position(det.result) <= Position(d)

\* xrd.txt accepts the first line but not every line, and the later xrd.xy,
\* which fully matches, is returned
C13_Witness ==
    /\ det.op = "detected"
    /\ det.result = "xrd.xy"
    /\ first_matcher_succeeds("xrd.txt", det.buffer)
    /\ "thz2.txt" \notin Matching(det.buffer)

\* ------------------------------------------------ the converters
MaxLines == 4

\* the lines of a raw buffer: two numbers, one number, text that starts with
\* no digit, a line that starts with "//", an empty line, and bytes that are
\* neither UTF-8 nor Windows-1251 text
LineKinds == {"pair", "count", "text", "comment", "blank", "garbled"}

Newlines == {"\n", "\r\n"}

RawBuffer(lines, newline) == [lines |-> lines, newline |-> newline]

RawBuffers ==
    {RawBuffer(l, nl) : l \in UNION {[1..n -> LineKinds] : n \in 0..MaxLines},
                        nl \in Newlines}

Converters == {"convert_dpt", "convert_dat", "convert_spectable", "convert_mon",
               "convert_txt"}

\* a row of the csv.writer: its cells and, where convert_dat made it, its x
NoX == [num |-> 0, den |-> 0]

Row(cells) == [cells |-> cells, x |-> NoX]

Point(x) == [cells |-> "point", x |-> x]

NoOutput == [present |-> FALSE, pos |-> "start", rows |-> <<>>, newline |-> ""]

\* BytesIO(sio.read().encode("utf8")) after bio.seek(0): csv.writer ends
\* every row with its dialect's lineterminator, "\r\n"
Output(rows) == [present |-> TRUE, pos |-> "start", rows |-> rows, newline |-> "\r\n"]

\* the handler returns what was written before the exception
except_returns_partial(data) == Output(data)

\* except Exception as e: logger.error(e); return None
except_returns(data) == NoOutput

\* what a converter's loop does with a line: a row of data, nothing, or an
\* exception (decoding in four converters, float() in convert_dat)
LineStep(converter, kind) ==
    CASE converter \in {"convert_dpt", "convert_txt"} ->
             IF kind = "garbled" THEN "raise" ELSE "row"
      [] converter = "convert_spectable" ->
             IF kind = "garbled" THEN "raise"
             ELSE IF kind \in {"pair", "count"} THEN "row" ELSE "skip"
      [] converter = "convert_mon" ->
             IF kind = "garbled" THEN "raise"
             ELSE IF kind \in {"blank", "comment"} THEN "skip" ELSE "row"
      [] converter = "convert_dat" ->
             IF kind = "count" THEN "row" ELSE "raise"

RECURSIVE read_lines(_, _, _, _)
\* the loop over the lines from the i-th on; data holds the rows made so far
read_lines(converter, lines, i, data) ==
    IF i > Len(lines) THEN [raised |-> FALSE, data |-> data]
    ELSE LET step == LineStep(converter, lines[i])
         IN IF step = "raise" THEN [raised |-> TRUE, data |-> data]
            ELSE read_lines(converter, lines, i + 1,
                            IF step = "row"
                            THEN Append(data, Row(IF lines[i] = "blank" THEN "empty"
                                                  ELSE lines[i]))
                            ELSE data)

\* convert_spectable, convert_mon, convert_txt, and convert_dpt after its
\* sniffing
convert_lines(converter, buffer) ==
    LET r == read_lines(converter, buffer.lines, 1, <<>>)
    IN IF r.raised THEN except_returns(r.data) ELSE Output(r.data)

\* np.linspace(start, stop, num) without its last point
np_linspace_open(start, stop, num) ==
    [i \in 1..num |-> [num |-> start * num + (i - 1) * (stop - start), den |-> num]]

\* np.linspace(start, stop, num): num points, the first start, the last stop;
\* a point is the fraction num/den
np_linspace(start, stop, num) ==
    [i \in 1..num |->
        IF num = 1 THEN [num |-> start, den |-> 1]
        ELSE [num |-> start * (num - 1) + (i - 1) * (stop - start), den |-> num - 1]]

\* convert_dat: the non-blank lines are counted, the first line is dropped
\* as the header, every other line must be one number, and the x axis has
\* line_count - 1 points over x_range = [0, 40]
convert_dat(buffer) ==
    LET lines == buffer.lines
        line_count == Cardinality({i \in DOMAIN lines : lines[i] # "blank"})
        y_counts == read_lines("convert_dat", lines, 2, <<>>)
    IN IF line_count - 1 < 0 \/ y_counts.raised
       THEN except_returns(y_counts.data)
       ELSE LET x_linspace == np_linspace(0, 40, line_count - 1)
            IN IF Len(x_linspace) # Len(y_counts.data)
               THEN except_returns(<<>>)
               ELSE Output([i \in DOMAIN x_linspace |-> Point(x_linspace[i])])

\* csv.Sniffer on the first 1024 bytes of a .dpt buffer: bytes that are no
\* UTF-8 raise; two or more lines of two numbers give a dialect and no header;
\* on other texts the outcome of its heuristics is left open
SniffOutcomes(buffer) ==
    IF \E i \in DOMAIN buffer.lines : buffer.lines[i] = "garbled" THEN {"error"}
    ELSE IF Len(buffer.lines) >= 2 /\ \A i \in DOMAIN buffer.lines : buffer.lines[i] = "pair"
    THEN {"dialect"}
    ELSE {"dialect", "has_header", "error"}

convert_dpt(buffer, sniffed) ==
    IF sniffed = "error" THEN except_returns(<<>>)
    ELSE IF sniffed = "has_header" THEN NoOutput
    ELSE convert_lines("convert_dpt", buffer)

\* the buffer a converter returned, read as a raw buffer
AsRawBuffer(out) ==
    RawBuffer([i \in DOMAIN out.rows |->
                  CASE out.rows[i].cells = "empty" -> "blank"
                    [] out.rows[i].cells = "point" -> "pair"
                    [] OTHER -> out.rows[i].cells],
              out.newline)

InitConvert ==
    /\ RunsOff
    /\ \E b \in RawBuffers :
         conv = [op |-> "raw", converter |-> "", input |-> b, out |-> NoOutput,
                 again |-> NoOutput]
    /\ meta = Unused
    /\ det = Unused
    /\ thz = Unused

Converted(converter, out) ==
    /\ conv.op = "raw"
    /\ conv' = [conv EXCEPT !.op = "converted", !.converter = converter, !.out = out]
    /\ UNCHANGED <<runs, meta, det, thz>>

Convert_dpt == \E s \in SniffOutcomes(conv.input) :
                   Converted("convert_dpt", convert_dpt(conv.input, s))

Convert_dat == Converted("convert_dat", convert_dat(conv.input))

Convert_spectable ==
    Converted("convert_spectable", convert_lines("convert_spectable", conv.input))

Convert_mon == Converted("convert_mon", convert_lines("convert_mon", conv.input))

Convert_txt == Converted("convert_txt", convert_lines("convert_txt", conv.input))

\* the converted .dpt buffer is handed to convert_dpt again
Reconvert_dpt ==
    /\ conv.op = "converted"
    /\ conv.converter = "convert_dpt"
    /\ conv.out.present
    /\ \E s \in SniffOutcomes(AsRawBuffer(conv.out)) :
         conv' = [conv EXCEPT !.op = "reconverted",
                              !.again = convert_dpt(AsRawBuffer(conv.out), s)]
    /\ UNCHANGED <<runs, meta, det, thz>>

NextConvert ==
    \/ Convert_dpt
    \/ Convert_dat
    \/ Convert_spectable
    \/ Convert_mon
    \/ Convert_txt
    \/ Reconvert_dpt

SpecConvert == InitConvert /\ [][NextConvert]_vars

\* a converter has returned
HasConverted == conv.op \in {"converted", "reconverted"}

\* the lines on which the converter's decoding or parsing fails
FailingLines ==
    {i \in DOMAIN conv.input.lines :
        IF conv.converter = "convert_dat"
        THEN i > 1 /\ conv.input.lines[i] # "count"
        ELSE conv.input.lines[i] = "garbled"}

\* the lines the converter turns into rows
DataLines ==
    {i \in DOMAIN conv.input.lines :
        CASE conv.converter = "convert_dat" -> i > 1
          [] conv.converter = "convert_spectable" ->
                 conv.input.lines[i] \in {"pair", "count"}
          [] conv.converter = "convert_mon" ->
                 conv.input.lines[i] \notin {"blank", "comment"}
          [] OTHER -> TRUE}

\* C14: a converter returns None or a complete buffer positioned at its
\* start, and None whenever decoding or parsing fails on any line
C14_NoPartialOutput ==
    HasConverted =>
        /\ \/ conv.out = NoOutput
           \/ /\ conv.out.present
              /\ conv.out.pos = "start"
              /\ Len(conv.out.rows) = Cardinality(DataLines)
        /\ FailingLines # {} => conv.out = NoOutput

\* the second line fails after the first has been converted
C14_Witness ==
    /\ HasConverted
    /\ conv.converter = "convert_spectable"
    /\ Len(conv.input.lines) = 3
    /\ conv.input.lines[1] = "pair"
    /\ FailingLines = {2}
    /\ conv.out = NoOutput

\* convert_dat has returned on one header line followed by data lines of one
\* number each
SingleColumnConverted ==
    /\ HasConverted
    /\ conv.converter = "convert_dat"
    /\ Len(conv.input.lines) >= 1
    /\ conv.input.lines[1] = "pair"
    /\ \A i \in DOMAIN conv.input.lines : i > 1 => conv.input.lines[i] = "count"

\* the number N of data lines
DataLineCount == Len(conv.input.lines) - 1

\* the x values go from 0 to 40 in equal steps
EvenlySpaced(rows) ==
    /\ Len(rows) >= 1 => rows[1].x.num = 0
    /\ Len(rows) >= 2 => rows[Len(rows)].x.num = 40 * rows[Len(rows)].x.den
    /\ \A i \in 1..(Len(rows) - 1) :
         /\ rows[i + 1].x.den = rows[i].x.den
         /\ rows[i + 1].x.num - rows[i].x.num = rows[2].x.num - rows[1].x.num
         /\ rows[i + 1].x.num > rows[i].x.num

CanonicalDpt == RawBuffer(<<"pair", "pair">>, "\n")

\* C16: convert_dpt returns the canonical buffer "100.0,0.01\n101.0,0.02\n"
\* with exactly the same bytes, every line ended by LF, and converting its
\* output again returns that output unchanged
C16_CanonicalBufferUnchanged ==
    (HasConverted /\ conv.converter = "convert_dpt" /\ conv.input = CanonicalDpt) =>
        /\ conv.out.present
        /\ AsRawBuffer(conv.out) = conv.input
        /\ conv.op = "reconverted" => conv.again = conv.out

\* ------------------------------------------------ the table of process_thz
MaxInterval == 2
MaxRows == 12

\* pad(..., 10000): the length of both transforms
PadLength == 10000

\* the sampling interval is a whole number of femtoseconds: 1000 to the
\* picosecond of the time column
TicksPerPs == 1000

\* COMMON_RANGE_FREQ_INTERVAL = (0.2, 1.0), in tenths of a THz
COMMON_RANGE_FREQ_INTERVAL == <<2, 10>>

Tenths == 10

NaN == [nan |-> TRUE, num |-> 0, den |-> 1]

Frac(num, den) == [nan |-> FALSE, num |-> num, den |-> den]

\* frequencies = np.arange(0, 1 / sampling_interval, frequency_inc) with
\* frequency_inc = 1 / (sampling_interval * len(ref_fft)): the k-th frequency
\* is k / (sampling_interval * 10000), in THz
frequencies(interval) ==
    [i \in 1..PadLength |-> Frac((i - 1) * TicksPerPs, interval * PadLength)]

\* np.ma.masked_inside(x, v1, v2).mask with the interval in tenths: both ends
\* belong to the interval
masked_inside(f, range) ==
    /\ f.num * Tenths >= range[1] * f.den
    /\ f.num * Tenths <= range[2] * f.den

\* pd.DataFrame([*data.T, *sample_data.T]).to_numpy().T: a list of arrays
\* of unequal lengths becomes a frame as long as the longest, the shorter
\* ones filled with NaN
JoinColumns(column, rows) ==
    [i \in 1..(IF rows > Len(column) THEN rows ELSE Len(column)) |->
        IF i <= Len(column) THEN column[i] ELSE NaN]

NoFrequencies == [present |-> FALSE, frequency |-> <<>>]

\* process_thz as far as the frequency column of its table goes: the
\* frequencies inside the band, joined with the rows of the sample trace.
\* A reference of fewer than two rows has no sampling interval and an empty
\* sample no minimum; both raise and None is returned
thz_frequency_column(interval, ref_rows, sample_rows) ==
    IF ref_rows < 2 \/ sample_rows < 1 THEN NoFrequencies
    ELSE LET InBand(f) == masked_inside(f, COMMON_RANGE_FREQ_INTERVAL)
             data == SelectSeq(frequencies(interval), InBand)
         IN [present |-> TRUE, frequency |-> JoinColumns(data, sample_rows)]

InitThzTable ==
    /\ RunsOff
    /\ \E s \in 1..MaxInterval, m \in 1..MaxRows, n \in 0..MaxRows :
         thz = [op |-> "traces", interval |-> s, ref_rows |-> m, sample_rows |-> n,
                table |-> NoFrequencies]
    /\ meta = Unused
    /\ det = Unused
    /\ conv = Unused

ProcessThzTable ==
    /\ thz.op = "traces"
    /\ thz' = [thz EXCEPT !.op = "table",
                          !.table = thz_frequency_column(thz.interval, thz.ref_rows,
                                                         thz.sample_rows)]
    /\ UNCHANGED <<runs, meta, det, conv>>

NextThzTable == ProcessThzTable

SpecThzTable == InitThzTable /\ [][NextThzTable]_vars

Less(f, g) == f.num * g.den < g.num * f.den

\* C17: in every table process_thz returns, the frequency of every row lies
\* inside [0.2, 1.0] and the frequencies strictly increase from row to row,
\* whatever the lengths of the traces
C17_FrequenciesInBandIncreasing ==
    (thz.op = "table" /\ thz.table.present) =>
        LET f == thz.table.frequency
        IN /\ \A i \in DOMAIN f :
                ~f[i].nan /\ masked_inside(f[i], COMMON_RANGE_FREQ_INTERVAL)
           /\ \A i \in 1..(Len(f) - 1) : Less(f[i], f[i + 1])

\* ------------------------------------------------ scaling of the traces
MaxSignal == 2
MaxTraceLength == 3

\* the factor both signal columns are multiplied by
MaxScale == 2

\* a trace: the signal column; the time column is 0, 1, 2, ... ps
Traces == UNION {[1..n -> 0..MaxSignal] : n \in 2..MaxTraceLength}

Abs(x) == IF x < 0 THEN -x ELSE x

RECURSIVE Sum(_, _)
Sum(f, n) == IF n = 0 THEN 0 ELSE f[n] + Sum(f, n - 1)

RECURSIVE GCD(_, _)
GCD(a, b) == IF b = 0 THEN a ELSE GCD(b, a % b)

\* a fraction in lowest terms
Reduced(num, den) == LET g == GCD(num, den) IN <<num \div g, den \div g>>

\* minmax(x) of a column
minmax(x) ==
    <<CHOOSE v \in {x[i] : i \in DOMAIN x} : \A i \in DOMAIN x : v <= x[i],
      CHOOSE v \in {x[i] : i \in DOMAIN x} : \A i \in DOMAIN x : v >= x[i]>>

\* the time column of a trace of n rows
TimeColumn(n) == [i \in 1..n |-> i - 1]

\* twice -np.trapz(*np.flip(data.T)): the trapezoid area under the signal,
\* the time step being 1
TwiceArea(signal) ==
    Sum([i \in 1..(Len(signal) - 1) |-> signal[i] + signal[i + 1]], Len(signal) - 1)

\* np.sum(np.abs(range)): range holds the minimum and maximum of both
\* columns, the time column and the signal column
SumAbsRange(signal) ==
    Abs(minmax(TimeColumn(Len(signal)))[1]) + Abs(minmax(TimeColumn(Len(signal)))[2])
    + Abs(minmax(signal)[1]) + Abs(minmax(signal)[2])

\* scaled intensity = signal - area / np.sum(np.abs(range)), as numerators
\* over the common denominator 2 * SumAbsRange(signal)
ScaledIntensity(signal) ==
    [i \in DOMAIN signal |-> 2 * SumAbsRange(signal) * signal[i] - TwiceArea(signal)]

\* exp(-2 pi j k i / 10000) for k a quarter q of the length: (-j)^(q i)
Twiddle(q, i) ==
    CASE (q * i) % 4 = 0 -> [re |-> 1, im |-> 0]
      [] (q * i) % 4 = 1 -> [re |-> 0, im |-> -1]
      [] (q * i) % 4 = 2 -> [re |-> -1, im |-> 0]
      [] (q * i) % 4 = 3 -> [re |-> 0, im |-> 1]

\* np.fft.fft of the zero-padded trace at bin q * 10000 / 4; the padding
\* adds nothing to the sum
fft(x, q) ==
    [re |-> Sum([i \in DOMAIN x |-> x[i] * Twiddle(q, i - 1).re], Len(x)),
     im |-> Sum([i \in DOMAIN x |-> x[i] * Twiddle(q, i - 1).im], Len(x))]

\* the square of np.abs(fft) of the scaled intensity at that bin, as a
\* fraction: the numerators were over 2 * SumAbsRange(signal)
SquaredAmplitude(signal, q) ==
    LET F == fft(ScaledIntensity(signal), q)
    IN [num |-> F.re * F.re + F.im * F.im, den |-> SumAbsRange(signal) * SumAbsRange(signal)]

\* (ref_amplitude / sample_amplitude) squared at that bin, in lowest terms;
\* <<0, 0>> where the sample amplitude is zero
AmplitudeRatio(ref, sample, q) ==
    LET r == SquaredAmplitude(ref, q)
        s == SquaredAmplitude(sample, q)
    IN IF s.num = 0 THEN <<0, 0>> ELSE Reduced(r.num * s.den, s.num * r.den)

\* the signal column multiplied by c
Scale(signal, c) == [i \in DOMAIN signal |-> c * signal[i]]

\* the bins whose frequency lies in COMMON_RANGE_FREQ_INTERVAL when the
\* sampling interval is 1 ps: 0.25 THz and 0.5 THz
QuarterBins == {1, 2}

NoRatios == [q \in QuarterBins |-> <<0, 0>>]

InitThzScaling ==
    /\ RunsOff
    /\ \E r \in Traces, s \in Traces, c \in 2..MaxScale :
         /\ Len(r) = Len(s)
         /\ thz = [op |-> "traces", ref |-> r, sample |-> s, c |-> c,
                   ratio |-> NoRatios, scaled_ratio |-> NoRatios]
    /\ meta = Unused
    /\ det = Unused
    /\ conv = Unused

\* process_thz on the pair
ProcessThz ==
    /\ thz.op = "traces"
    /\ thz' = [thz EXCEPT !.op = "processed",
                          !.ratio = [q \in QuarterBins |->
                                        AmplitudeRatio(thz.ref, thz.sample, q)]]
    /\ UNCHANGED <<runs, meta, det, conv>>

\* process_thz on the pair with both signal columns multiplied by c
ProcessThzScaled ==
    /\ thz.op = "processed"
    /\ thz' = [thz EXCEPT !.op = "processed_scaled",
                          !.scaled_ratio = [q \in QuarterBins |->
                                               AmplitudeRatio(Scale(thz.ref, thz.c),
                                                              Scale(thz.sample, thz.c), q)]]
    /\ UNCHANGED <<runs, meta, det, conv>>

NextThzScaling ==
    \/ ProcessThz
    \/ ProcessThzScaled

SpecThzScaling == InitThzScaling /\ [][NextThzScaling]_vars

\* C18: process_thz on a pair whose signal columns are both multiplied by
\* c > 0 returns the same refractive-index and absorption-index curves as on
\* the unscaled pair.  At a row where the refractive index is the same the
\* absorption index 20 / d * log(4 n A_ref / ((n + 1)^2 A_sample)) is the
\* same only if the amplitude ratio A_ref / A_sample is, so equal curves
\* need equal amplitude ratios at every frequency of the band
C18_ScalingSymmetry ==
    thz.op = "processed_scaled" =>
        \A q \in QuarterBins :
            (thz.ratio[q] # <<0, 0>> /\ thz.scaled_ratio[q] # <<0, 0>>)
                => thz.scaled_ratio[q] = thz.ratio[q]

\* ------------------------------------------------ the request and the queue
\* C19: POST /processing/{id} answers 202 and enqueues exactly one
\* processing task for that id without waiting for the task to run: the
\* answer and the count stay what they are whatever the processing does
C19_AcceptedAndEnqueuedOnce ==
    \A r \in Ids :
        IF pc[r] \in {"off", "idle"}
        THEN api[r] = NoRequest
        ELSE api[r].status_code = 202 /\ api[r].enqueued = 1

\* the request has been answered while its task still waits in the queue
C19_Witness ==
    /\ pc[1] = "queued"
    /\ api[1].status_code = 202
    /\ result[1] = NoResult

\* the update_status tasks of record r that no worker has run yet
Pending(r) ==
    {i \in DOMAIN statusLog[r] : statusLog[r][i].via = "delay" /\ i \notin db[r].done}

\* a worker runs one of the enqueued update_status tasks; the workers take
\* tasks concurrently, so any pending task can be the next to reach the
\* database
update_status(r) ==
    /\ \E i \in Pending(r), ok \in BOOLEAN :
         db' = [db EXCEPT ![r] = Patch(@, i, statusLog[r][i].status, ok)]
    /\ UNCHANGED <<pure, api, record, settings, pc, spectrum, reference, statusLog, uploads,
                   calls, exc, failure, resp, result, procMsg, reads, writes>>

NextWorkers ==
    \/ Next
    \/ \E r \in Ids : update_status(r)

\* the runs of Spec together with the workers that execute the status tasks
SpecWorkers == Init /\ [][NextWorkers]_vars

TerminalStatuses == {"successful", "error"}

\* the run of record r enqueued "ongoing" and later a terminal status, has
\* ended, and every update it enqueued has been executed, each PATCH with
\* success
AllUpdatesExecuted(r) ==
    /\ pc[r] = "done"
    /\ Len(statusLog[r]) >= 2
    /\ statusLog[r][1].status = "ongoing"
    /\ LastStatus(r) \in TerminalStatuses
    /\ \A i \in DOMAIN statusLog[r] : statusLog[r][i].via = "delay"
    /\ Pending(r) = {}
    /\ db[r].failed = {}

\* C20: once every enqueued update_status of a run has executed, the stored
\* status of the record is the terminal one, in whatever order the workers
\* executed the updates
C20_TerminalStatusStored ==
    \A r \in Ids : AllUpdatesExecuted(r) => db[r].status = LastStatus(r)


\* ------------------------------------------------ uploads and statuses
\* C21: whenever process_spectrum hands the converted csv buffer to
\* patch_with_processed_file after find_peaks, the buffer's read position is
\* at its start, whatever find_peaks did (peaks found, no detector result,
\* an exception raised while the buffer was being read)
C21_UploadedFromStart ==
    \A r \in Ids :
        "find_peaks" \in calls[r] =>
            \A i \in DOMAIN uploads[r] : uploads[r][i].pos = "start"


\* C22: "successful" is sent only after every upload of the run returned a
\* response: the file upload and update_metadata for a non-THz record, the
\* file upload for a THz record; and no buffer handed to
\* patch_with_processed_file is None
C22_SuccessfulAfterUploads ==
    \A r \in Ids :
        /\ "successful" \in Statuses(r) =>
             /\ "patch_with_processed_file" \in calls[r]
             /\ resp[r].file = "Response"
             /\ spectrum[r].category # "thz" =>
                  "update_metadata" \in calls[r] /\ resp[r].metadata = "Response"
        /\ \A i \in DOMAIN uploads[r] : uploads[r][i].name # NoBuffer.name

\* a non-THz run uploaded the csv and the merged metadata, got both
\* responses and ended "successful"
C22_Witness ==
    \E r \in Ids :
        /\ pc[r] = "done"
        /\ LastStatus(r) = "successful"
        /\ spectrum[r].category # "thz"
        /\ Len(uploads[r]) = 1
        /\ resp[r] = [file |-> "Response", metadata |-> "Response"]


\* C23: a run of process_spectrum sends at most one terminal status for its
\* record: never both "successful" and "error", never a terminal status
\* twice, and no status after a terminal one; that is, a terminal status is
\* the last status the run sends
C23_OneTerminalStatusLast ==
    \A r \in Ids :
        \A i \in DOMAIN statusLog[r] :
            statusLog[r][i].status \in TerminalStatuses => i = Len(statusLog[r])

\* a THz run sent "ongoing", then a terminal status inside handle_thz, and
\* went on through process_spectrum to its end
C23_Witness ==
    \E r \in Ids :
        /\ pc[r] = "done"
        /\ "handle_thz" \in calls[r]
        /\ Len(statusLog[r]) = 2
        /\ statusLog[r][1].status = "ongoing"
        /\ statusLog[r][2].status \in TerminalStatuses


\* ------------------------------------------------ the bearer token
\* C24: every request sent with an Authorization header carries a token a
\* successful get_token stored: settings.access_token is not None when a
\* sender reads it for its request.  (A stored token is never cleared, so a
\* run that has read the token for a request while the token is still None
\* has sent "Bearer None".)
C24_RequestsCarryToken ==
    \A r \in Ids :
        Shared("settings.access_token") \in reads[r] => settings.access_token # None


\* ------------------------------------------------ the sample thickness
\* C25: for a THz record that has a reference record (the lookup of
\* handle_thz found its id) but no sample thickness, the run sends "error",
\* never invokes process_thz and uploads no file; and process_thz is only
\* invoked with a thickness and two converted buffers that are not None
C25_MissingThicknessIsError ==
    \A r \in Ids :
        /\ (/\ Returned(r)
            /\ spectrum[r].category = "thz"
            /\ reference[r].ref_id # None
            /\ spectrum[r].sample_thickness = None)
           => /\ "error" \in Statuses(r)
              /\ "process_thz" \notin calls[r]
              /\ uploads[r] = <<>>
        /\ "process_thz" \in calls[r] =>
              /\ spectrum[r].sample_thickness # None
              /\ spectrum[r].csv_file.present
              /\ reference[r].csv_file.present

============================================================================
